---- MODULE Spec2Model ----
(***************************************************************************)
(* CircuitBoard: the mesh/node equation engines of the repository.         *)
(*                                                                         *)
(*   gamma  src/Failed/gamma.py   schematic editor + mesh analysis         *)
(*                                (CircuitVisualizer.analyze_circuit)      *)
(*   V1     src/V1/CircuitBoard.py  text mesh calculator                   *)
(*   delta  src/Failed/delta.py   node analysis window                     *)
(*                                                                         *)
(* Every program has its own variables and its own specification           *)
(* (SpecGamma, SpecV1, SpecDelta); a specification keeps the variables of  *)
(* the other programs at their initial values.                             *)
(*                                                                         *)
(* Numbers: component values are whole ohms / volts.  A determinant of an  *)
(* integer matrix is an integer, so |det| < 1e-9 is decided exactly.       *)
(* Solved currents / voltages are kept as Cramer numerators over the       *)
(* determinant (value[i] = num[i] / det).                                  *)
(***************************************************************************)
EXTENDS Integers, Sequences, FiniteSets, TLC

(***************************************************************************)
(* Bounds of the model.                                                    *)
(***************************************************************************)
\* gamma: components in the scene, and components plus connection lines.
MaxComps == 3
MaxItems == 5

\* V1: resistors, meshes, resistor IDs on one mesh line, shared resistors.
MaxResistors == 3
MaxMeshes == 2
MaxIds == 2
MaxShared == 1

\* delta: nodes of the circuit.
MaxNodes == 4

\* gamma: analyze_circuit calls that wait inside processEvents() at one time.
MaxSuspended == 2

\* alpha: components and wires on the workspace.
MaxParts == 2
MaxWires == 1

\* Values typed into QInputDialog.getDouble (its minimum is 0, gamma.py:301, 615).
ResistanceInputs == {0, 1, 2}
VoltageInputs == {5}

\* The voltages with the minimum of the dialog, 0 V, among them.
VoltageInputsZero == {0, 5}

\* V1: what the user types at the prompts.
V1Resistances == {0, 1, 2, 3}
V1Voltages == {10}
V1Tokens == {"1", "2", "3", "x", ""}

\* delta: what the user types into BatteryDialog and ResistorDialog.
DeltaVoltages == {0, 10}
DeltaResistances == {0, 1, 2}

\* alpha: the workspace points the mouse is pressed on besides the
\* components and their terminals (a component is put on one of these
\* points only), the tool buttons clicked, the offsets event.rel of a mouse
\* motion (pixels), and the part of the workspace components are dragged
\* within.
Spots == {<<200, 200>>, <<320, 200>>}
Tools == {"resistor", "wire"}
Offsets == {<<40, 0>>, <<80, 0>>}
DragXs == 160..360
DragYs == 200..200

VARIABLES
  \* ---- gamma: CircuitVisualizer ----
  comps,            \* CircuitComponent items of the scene, in insertion order
  wires,            \* ConnectionLine items of the scene, in insertion order
  result,           \* what analyze_circuit last reported and computed
  suspended,        \* analyze_circuit calls waiting inside processEvents()
  \* ---- V1: the locals of main() ----
  pc,               \* the prompt main() is at, or "done" / "crashed"
  num_resistors,
  voltage_source,
  num_meshes,
  resistor_values,  \* resistor_values[id], ids 1..Len
  mesh_definitions, \* mesh_definitions[mesh_id]: the list res_ids
  num_shared,
  shared_resistors, \* the list of (r_id, mesh1_id, mesh2_id)
  calculated,       \* what calculate_mesh_currents computed and returned
  \* ---- delta: NodeAnalysisWindow ----
  window,           \* the fields of the window object
  dialog,           \* the dialog enter_data is waiting in, or "idle"
  \* ---- alpha: CircuitSimulator ----
  sim               \* the fields of the simulator object

gammaVars == <<comps, wires, result, suspended>>

v1Vars == <<pc, num_resistors, voltage_source, num_meshes, resistor_values,
            mesh_definitions, num_shared, shared_resistors, calculated>>

deltaVars == <<window, dialog>>

alphaVars == <<sim>>

vars == <<gammaVars, v1Vars, deltaVars, alphaVars>>

(***************************************************************************)
(* Helpers on sequences and matrices.                                      *)
(***************************************************************************)
Abs(x) == IF x < 0 THEN -x ELSE x

Reverse(s) == [k \in 1..Len(s) |-> s[Len(s) + 1 - k]]

RemoveAt(s, i) == [k \in 1..(Len(s) - 1) |-> IF k < i THEN s[k] ELSE s[k + 1]]

Zeros(n) == [i \in 1..n |-> 0]

ZeroMatrix(n) == [i \in 1..n |-> Zeros(n)]

\* np.linalg.det, by expansion along the first row (exact on integers).
Minor(M, r, c) ==
  [i \in 1..(Len(M) - 1) |->
     [j \in 1..(Len(M) - 1) |->
        M[IF i < r THEN i ELSE i + 1][IF j < c THEN j ELSE j + 1]]]

RECURSIVE Det(_)
RECURSIVE DetRow(_, _)
DetRow(M, c) ==
  IF c > Len(M) THEN 0
  ELSE (IF c % 2 = 1 THEN 1 ELSE -1) * M[1][c] * Det(Minor(M, 1, c))
       + DetRow(M, c + 1)

Det(M) == IF Len(M) = 0 THEN 1 ELSE DetRow(M, 1)

\* np.linalg.solve on a non-singular system, as Cramer numerators:
\* x[i] = CramerNum(A, b)[i] / Det(A).
ReplaceCol(A, c, b) ==
  [i \in 1..Len(A) |-> [j \in 1..Len(A) |-> IF j = c THEN b[i] ELSE A[i][j]]]

CramerNum(A, b) == [i \in 1..Len(A) |-> Det(ReplaceCol(A, i, b))]

(***************************************************************************)
(* gamma: the scene.                                                       *)
(*                                                                         *)
(* A component is [type, value]; its identity is its position in comps.    *)
(* A dot is <<i, k>>: dot k (1 = dot1, 2 = dot2) of component i.  A wire   *)
(* is the set {dot1, dot2} of its two ends: ConnectionLine.__eq__ and      *)
(* __hash__ and the analysis read the pair, never which end is dot1.       *)
(***************************************************************************)
SceneDots == {<<i, k>> : i \in 1..Len(comps), k \in {1, 2}}

\* ConnectionLine.__eq__: the same unordered pair of dots.
LineEq(a, b) == a = b

\* ConnectionLine.get_component1 / get_component2, as places in comps.
LineComps(line) == {d[1] : d \in line}

\* What the analysis writes; the fields after outcome are its local values.
\* outcome is the kind of text in result_label ("none": no analysis shown).
NoResult(outcome) ==
  [outcome |-> outcome, noSource |-> FALSE, parts |-> 0,
   G |-> [n |-> 0, edges |-> <<>>], meshes |-> <<>>,
   R |-> <<>>, V |-> <<>>, det |-> 0, solverCalled |-> FALSE, currents |-> <<>>]

\* The model explores editing while no analysis result is displayed: the
\* analysis reads only the scene and writes only result, so editing after an
\* analysis reaches the scenes that editing before it reaches.  The handlers
\* also run for the events that processEvents() dispatches while the label
\* shows "Analyzing circuit...".
Editing == result.outcome \in {"none", "analyzing"}

InitScene ==
  /\ comps = <<>>
  /\ wires = <<>>
  /\ result = NoResult("none")
  /\ suspended = 0

\* add_component: the dialog returns (value, ok); a resistance <= 0 is refused.
add_component(type, value, ok) ==
  /\ Editing
  /\ Len(comps) < MaxComps
  /\ Len(comps) + Len(wires) < MaxItems
  /\ IF ok /\ ~(type = "R" /\ value <= 0)
       THEN comps' = Append(comps, [type |-> type, value |-> value, lines |-> {}])
       ELSE comps' = comps
  /\ UNCHANGED <<wires, result, suspended, v1Vars, deltaVars, alphaVars>>

\* A variant of mouseDoubleClickEvent that stores whatever the dialog returns.
mouseDoubleClickEvent_Any(i, value, ok) ==
  /\ Editing
  /\ i \in 1..Len(comps)
  /\ IF ok
       THEN comps' = [comps EXCEPT ![i].value = value]
       ELSE comps' = comps
  /\ UNCHANGED <<wires, result, suspended, v1Vars, deltaVars, alphaVars>>

\* CircuitComponent.mouseDoubleClickEvent: change the value of component i.
mouseDoubleClickEvent(i, value, ok) ==
  /\ Editing
  /\ i \in 1..Len(comps)
  /\ IF ok /\ ~(comps[i].type = "R" /\ value <= 0)
       THEN comps' = [comps EXCEPT ![i].value = value]
       ELSE comps' = comps
  /\ UNCHANGED <<wires, result, suspended, v1Vars, deltaVars, alphaVars>>

\* CircuitComponent.add_line and remove_line on component c of cs.
add_line(cs, c, line) == [cs EXCEPT ![c].lines = @ \cup {line}]

remove_line(cs, c, line) == [cs EXCEPT ![c].lines = @ \ {line}]

\* A variant of connect that draws the line although it exists.
connect_Again(start, end) ==
  /\ Editing
  /\ start \in SceneDots
  /\ end \in SceneDots \ {start}
  /\ start[1] <= end[1]
  /\ LET new_line == {start, end}
         other == end[1] # start[1]
     IN  /\ other => Len(comps) + Len(wires) < MaxItems
         /\ IF other
               THEN /\ wires' = Append(wires, new_line)
                    /\ comps' = add_line(add_line(comps, start[1], new_line),
                                         end[1], new_line)
               ELSE UNCHANGED <<comps, wires>>
  /\ UNCHANGED <<result, suspended, v1Vars, deltaVars, alphaVars>>

\* Drawing a connection: scene_mousePressEvent on the dot start (it becomes
\* connecting_dot), then scene_mouseReleaseEvent over the dot end, which is
\* never the starting dot.  connecting_dot is None before and after.  The
\* line is the same whichever of its ends was pressed, so the press is on the
\* end that belongs to the earlier component.
connect(start, end) ==
  /\ Editing
  /\ start \in SceneDots
  /\ end \in SceneDots \ {start}
  /\ start[1] <= end[1]
  /\ LET new_line == {start, end}
         connection_already_exists ==
           \E k \in 1..Len(wires) : LineEq(new_line, wires[k])
         other == end[1] # start[1]
     IN  /\ (other /\ ~connection_already_exists)
              => Len(comps) + Len(wires) < MaxItems
         /\ IF other /\ ~connection_already_exists
               THEN /\ wires' = Append(wires, new_line)
                    /\ comps' = add_line(add_line(comps, start[1], new_line),
                                         end[1], new_line)
               ELSE UNCHANGED <<comps, wires>>
  /\ UNCHANGED <<result, suspended, v1Vars, deltaVars, alphaVars>>

\* A dot after component i left the scene: later components move down one place.
ShiftDot(d, i) == IF d[1] > i THEN <<d[1] - 1, d[2]>> ELSE d

ShiftLine(line, i) == {ShiftDot(d, i) : d \in line}

\* CircuitComponent.remove_all_lines of component i: every line of its line
\* set leaves the line set of the component at its other end and its own.
RECURSIVE remove_all_lines(_, _, _)
remove_all_lines(cs, i, lines_to_remove) ==
  IF lines_to_remove = {} THEN cs
  ELSE LET line == CHOOSE l \in lines_to_remove : TRUE
           ends == LineComps(line) \cap (1..Len(cs))
           other_comp == IF ends \ {i} = {} THEN i
                         ELSE CHOOSE c \in ends \ {i} : TRUE
       IN  remove_all_lines(remove_line(remove_line(cs, other_comp, line), i, line),
                            i, lines_to_remove \ {line})

\* scene_keyPressEvent(Delete) with component i selected and the deletion
\* confirmed: remove_all_lines, which also takes the lines of the line set
\* out of the scene, then the component.
scene_keyPressEvent(i) ==
  /\ Editing
  /\ i \in 1..Len(comps)
  /\ LET lines_to_remove == comps[i].lines
         left == RemoveAt(remove_all_lines(comps, i, lines_to_remove), i)
         kept == SelectSeq(wires, LAMBDA w : w \notin lines_to_remove)
     IN  /\ comps' = [c \in 1..Len(left) |->
                        [left[c] EXCEPT !.lines = {ShiftLine(l, i) : l \in @}]]
         /\ wires' = [k \in 1..Len(kept) |-> ShiftLine(kept[k], i)]
  /\ UNCHANGED <<result, suspended, v1Vars, deltaVars, alphaVars>>

\* clear_circuit, confirmed with Yes.
clear_circuit ==
  /\ comps' = <<>>
  /\ wires' = <<>>
  /\ result' = NoResult("none")
  /\ UNCHANGED <<suspended, v1Vars, deltaVars, alphaVars>>

(***************************************************************************)
(* gamma: _build_graph.  The graph is [n, edges]: nodes 0..n-1 in the      *)
(* order they were added, edges in the order they were added; an edge is   *)
(* [u, v, el] with el the component (its place in comps) or 0 for a wire.  *)
(* QGraphicsScene.items() lists items of equal Z value newest first.       *)
(***************************************************************************)
SceneItems(items) == Reverse(items)

\* node_map[dot]: components are numbered in the order items() lists them.
NodeOf(cs, d) == 2 * (Len(cs) - d[1]) + (d[2] - 1)

InNodeMap(cs, d) == d[1] \in 1..Len(cs)

HasEdge(edges, u, v) ==
  \E k \in 1..Len(edges) : {edges[k].u, edges[k].v} = {u, v}

\* The internal edge of every component, dot1 -> dot2.
ComponentEdges(cs) ==
  [p \in 1..Len(cs) |->
     [u |-> 2 * (p - 1), v |-> 2 * (p - 1) + 1, el |-> Len(cs) + 1 - p]]

\* The wire edges, added unless the edge already exists.
RECURSIVE AddWireEdges(_, _, _, _)
AddWireEdges(cs, lines, k, edges) ==
  IF k > Len(lines) THEN edges
  ELSE LET line == lines[k]
           ok == \A d \in line : InNodeMap(cs, d)
           u == CHOOSE u \in {NodeOf(cs, d) : d \in line} :
                  \A w \in {NodeOf(cs, d) : d \in line} : u <= w
           v == CHOOSE v \in {NodeOf(cs, d) : d \in line} :
                  \A w \in {NodeOf(cs, d) : d \in line} : w <= v
       IN  IF ok /\ u # v /\ ~HasEdge(edges, u, v)
             THEN AddWireEdges(cs, lines, k + 1,
                               Append(edges, [u |-> u, v |-> v, el |-> 0]))
             ELSE AddWireEdges(cs, lines, k + 1, edges)

build_graph(cs, ws) ==
  [n |-> 2 * Len(cs),
   edges |-> AddWireEdges(cs, SceneItems(ws), 1, ComponentEdges(cs))]

Nodes(G) == 0..(G.n - 1)

\* G[z]: the neighbours of z in the order their edges were added.
RECURSIVE AdjFrom(_, _, _)
AdjFrom(G, z, k) ==
  IF k > Len(G.edges) THEN <<>>
  ELSE LET e == G.edges[k]
       IN  (IF e.u = z THEN <<e.v>> ELSE IF e.v = z THEN <<e.u>> ELSE <<>>)
           \o AdjFrom(G, z, k + 1)

Adj(G, z) == AdjFrom(G, z, 1)

\* G.get_edge_data(u, v)['element'].
EdgeElement(G, u, v) ==
  LET k == CHOOSE k \in 1..Len(G.edges) : {G.edges[k].u, G.edges[k].v} = {u, v}
  IN  G.edges[k].el

\* The nodes reachable from the nodes of seen.
RECURSIVE Reach(_, _)
Reach(G, seen) ==
  LET next == seen \cup
                {e.v : e \in {G.edges[k] : k \in {k \in 1..Len(G.edges) : G.edges[k].u \in seen}}}
                \cup
                {e.u : e \in {G.edges[k] : k \in {k \in 1..Len(G.edges) : G.edges[k].v \in seen}}}
  IN  IF next = seen THEN seen ELSE Reach(G, next)

\* A variant of is_connected that accepts every graph.
is_connected_Always(G) == TRUE

\* nx.is_connected(G), for a graph with nodes.
is_connected(G) == Reach(G, {0}) = Nodes(G)

\* len(list(nx.connected_components(G))).
RECURSIVE CountComponents(_, _)
CountComponents(G, left) ==
  IF left = {} THEN 0
  ELSE LET z == CHOOSE z \in left : \A y \in left : z <= y
       IN  1 + CountComponents(G, left \ Reach(G, {z}))

number_connected_components(G) == CountComponents(G, Nodes(G))

(***************************************************************************)
(* networkx.cycle_basis(G), the library routine analyze_circuit calls: a   *)
(* depth-first walk of a spanning tree from a root; every non-tree edge    *)
(* closes one cycle [nbr, z, pred[z], ..., p].  The walk state is          *)
(* [stack, pred, used, cycles].                                            *)
(***************************************************************************)
\* "root = gnodes.popitem()[0]": gnodes is dict.fromkeys(G), the nodes in the
\* order they were added, and popitem takes the last of those left.
PopRoot(gnodes) == CHOOSE z \in gnodes : \A y \in gnodes : y <= z

\* cycle.append(p) while p is not in pn, then the closing node.
RECURSIVE CyclePath(_, _, _)
CyclePath(pred, p, pn) ==
  IF p \in pn THEN <<p>> ELSE <<p>> \o CyclePath(pred, pred[p], pn)

\* A variant of VisitNew that forgets stack.append(nbr).
VisitNew_NoPush(st, nbr, z) ==
  [st EXCEPT !.pred = (nbr :> z) @@ @,
             !.used = (nbr :> {z}) @@ @]

\* "if nbr not in used": pred[nbr] = z; stack.append(nbr); used[nbr] = {z}.
VisitNew(st, nbr, z) ==
  [st EXCEPT !.pred = (nbr :> z) @@ @,
             !.stack = Append(@, nbr),
             !.used = (nbr :> {z}) @@ @]

\* The body of "for nbr in G[z]" from the k-th neighbour on.
RECURSIVE CycleNbrs(_, _, _, _, _)
CycleNbrs(z, zused, nbrs, k, st) ==
  IF k > Len(nbrs) THEN st
  ELSE LET nbr == nbrs[k]
       IN  IF nbr \notin DOMAIN st.used
             THEN CycleNbrs(z, zused, nbrs, k + 1, VisitNew(st, nbr, z))
           ELSE IF nbr = z
             THEN CycleNbrs(z, zused, nbrs, k + 1,
                    [st EXCEPT !.cycles = Append(@, <<z>>)])
           ELSE IF nbr \notin zused
             THEN CycleNbrs(z, zused, nbrs, k + 1,
                    [st EXCEPT
                       !.cycles = Append(@, <<nbr, z>> \o
                                    CyclePath(st.pred, st.pred[z], st.used[nbr])),
                       !.used = [@ EXCEPT ![nbr] = @ \cup {z}]])
           ELSE CycleNbrs(z, zused, nbrs, k + 1, st)

\* "while stack": pop the last node and scan its neighbours.
RECURSIVE CycleWalk(_, _)
CycleWalk(G, st) ==
  IF st.stack = <<>> THEN st
  ELSE LET z == st.stack[Len(st.stack)]
           popped == [st EXCEPT !.stack = SubSeq(@, 1, Len(@) - 1)]
       IN  CycleWalk(G, CycleNbrs(z, st.used[z], Adj(G, z), 1, popped))

\* "while gnodes": one walk per connected component.
RECURSIVE CycleComponents(_, _, _)
CycleComponents(G, gnodes, cycles) ==
  IF gnodes = {} THEN cycles
  ELSE LET root == PopRoot(gnodes)
           st == CycleWalk(G, [stack |-> <<root>>, pred |-> (root :> root),
                               used |-> (root :> {}), cycles |-> cycles])
       IN  CycleComponents(G, (gnodes \ {root}) \ DOMAIN st.pred, st.cycles)

cycle_basis(G) == CycleComponents(G, Nodes(G), <<>>)

(***************************************************************************)
(* gamma: analyze_circuit.                                                 *)
(***************************************************************************)
\* The determinant tolerance 1e-9 = TolNum / TolDen.
TolNum == 1
TolDen == 1000000000

\* A variant of BelowTolerance that never reports a small determinant.
BelowTolerance_Never(d) == FALSE

\* abs(determinant) < 1e-9, without leaving 32-bit integers.
BelowTolerance(d) ==
  IF Abs(d) >= TolNum THEN FALSE ELSE Abs(d) * TolDen < TolNum

\* mesh_edges_ordered[i]: the edges (u, v) along the cycle, closing it.
RECURSIVE OrderedEdgesFrom(_, _, _)
OrderedEdgesFrom(G, mesh_nodes, k) ==
  IF k > Len(mesh_nodes) THEN <<>>
  ELSE LET u == mesh_nodes[k]
           v == mesh_nodes[(k % Len(mesh_nodes)) + 1]
       IN  (IF HasEdge(G.edges, u, v) THEN <<<<u, v>>>> ELSE <<>>)
           \o OrderedEdgesFrom(G, mesh_nodes, k + 1)

mesh_edges_ordered(G, meshes) ==
  [i \in 1..Len(meshes) |-> OrderedEdgesFrom(G, meshes[i], 1)]

\* edge_meshes[frozenset([u, v])]: the meshes that hold the edge, one entry
\* for every time a mesh lists it.
RECURSIVE EdgeMeshesFrom(_, _, _, _)
EdgeMeshesFrom(ordered, key, i, k) ==
  IF i > Len(ordered) THEN <<>>
  ELSE IF k > Len(ordered[i]) THEN EdgeMeshesFrom(ordered, key, i + 1, 1)
  ELSE (IF {ordered[i][k][1], ordered[i][k][2]} = key THEN <<i>> ELSE <<>>)
       \o EdgeMeshesFrom(ordered, key, i, k + 1)

edge_meshes(ordered, key) == EdgeMeshesFrom(ordered, key, 1, 1)

\* "for j in shared_mesh_indices: if i != j: R_temp[i, j] -= comp.value".
RECURSIVE SubtractShared(_, _, _, _, _)
SubtractShared(R, i, shared, k, value) ==
  IF k > Len(shared) THEN R
  ELSE SubtractShared(
         IF shared[k] # i THEN [R EXCEPT ![i][shared[k]] = @ - value] ELSE R,
         i, shared, k + 1, value)

\* A variant of SourceTerm with the two signs exchanged.
SourceTerm_Swapped(direction, value, old) ==
  IF direction = 1 THEN old + value ELSE old - value

\* A voltage source on the edge: "if direction == 1: V_temp[i] -= comp.value
\* elif direction == -1: V_temp[i] += comp.value".
SourceTerm(direction, value, old) ==
  IF direction = 1 THEN old - value ELSE old + value

\* A variant of EdgeContribution in which a wire adds one ohm to its mesh.
EdgeContribution_WireOhm(cs, G, ordered, i, u, v, acc) ==
  LET element == EdgeElement(G, u, v)
  IN  IF element = 0 THEN [acc EXCEPT !.R[i][i] = @ + 1]
      ELSE
        LET comp == cs[element]
            n1 == NodeOf(cs, <<element, 1>>)
            n2 == NodeOf(cs, <<element, 2>>)
            direction == IF <<u, v>> = <<n1, n2>> THEN 1
                         ELSE IF <<u, v>> = <<n2, n1>> THEN -1
                         ELSE 0
        IN  IF direction = 0 THEN acc
            ELSE IF comp.type = "R"
              THEN [acc EXCEPT !.R =
                      SubtractShared([@ EXCEPT ![i][i] = @ + comp.value], i,
                                     edge_meshes(ordered, {u, v}), 1, comp.value)]
            ELSE IF comp.type = "V"
              THEN [acc EXCEPT !.V[i] = SourceTerm(direction, comp.value, @)]
            ELSE acc

\* The contribution of one edge (u, v) of mesh i to [R, V] = (R_temp, V_temp).
EdgeContribution(cs, G, ordered, i, u, v, acc) ==
  LET element == EdgeElement(G, u, v)
  IN  IF element = 0 THEN acc          \* a wire
      ELSE
        LET comp == cs[element]
            n1 == NodeOf(cs, <<element, 1>>)
            n2 == NodeOf(cs, <<element, 2>>)
            direction == IF <<u, v>> = <<n1, n2>> THEN 1
                         ELSE IF <<u, v>> = <<n2, n1>> THEN -1
                         ELSE 0
        IN  IF direction = 0 THEN acc
            ELSE IF comp.type = "R"
              THEN [acc EXCEPT !.R =
                      SubtractShared([@ EXCEPT ![i][i] = @ + comp.value], i,
                                     edge_meshes(ordered, {u, v}), 1, comp.value)]
            ELSE IF comp.type = "V"
              THEN [acc EXCEPT !.V[i] = SourceTerm(direction, comp.value, @)]
            ELSE acc

\* "for i in range(num_meshes): for u, v in mesh_edges_ordered[i]".
RECURSIVE Populate(_, _, _, _, _, _)
Populate(cs, G, ordered, i, k, acc) ==
  IF i > Len(ordered) THEN acc
  ELSE IF k > Len(ordered[i]) THEN Populate(cs, G, ordered, i + 1, 1, acc)
  ELSE Populate(cs, G, ordered, i, k + 1,
                EdgeContribution(cs, G, ordered, i, ordered[i][k][1],
                                 ordered[i][k][2], acc))

\* resistance_matrix = (R_temp + R_temp.T) / 2 with the diagonal of R_temp.
\* R_temp is symmetric in every reachable state (FinalizeExact), so the
\* quotient is the exact half.
Finalize(R_temp) ==
  [i \in 1..Len(R_temp) |->
     [j \in 1..Len(R_temp) |->
        IF i = j THEN R_temp[i][i] ELSE (R_temp[i][j] + R_temp[j][i]) \div 2]]

R_temp_of(cs, G, meshes) ==
  Populate(cs, G, mesh_edges_ordered(G, meshes), 1, 1,
           [R |-> ZeroMatrix(Len(meshes)), V |-> Zeros(Len(meshes))]).R

\* The singularity check and the solve.
SolveMeshes(base, R, V) ==
  LET determinant == Det(R)
  IN  IF BelowTolerance(determinant)
        THEN [base EXCEPT !.outcome = "singular", !.R = R, !.V = V,
                          !.det = determinant]
        ELSE [base EXCEPT !.outcome = "solved", !.R = R, !.V = V,
                          !.det = determinant, !.solverCalled = TRUE,
                          !.currents = CramerNum(R, V)]

\* A variant of NoMeshes that never stops the analysis.
NoMeshes_Never(mesh_basis_nodes) == FALSE

\* "if not mesh_basis_nodes": the cycle basis is empty.
NoMeshes(mesh_basis_nodes) == Len(mesh_basis_nodes) = 0

\* The whole of analyze_circuit on the scene (cs, ws).
Analysis(cs, ws) ==
  LET components == SceneItems(cs)
      connections == SceneItems(ws)
      noSource == ~(\E k \in 1..Len(components) : components[k].type = "V")
      G == build_graph(cs, ws)
      start == [NoResult("analyzing") EXCEPT !.noSource = noSource]
  IN  IF Len(components) = 0 THEN NoResult("no_components")
      ELSE IF Len(connections) = 0 /\ Len(components) > 1
        THEN [start EXCEPT !.outcome = "no_connections"]
      ELSE IF G.n = 0
        THEN [start EXCEPT !.outcome = "graph_failed"]
      ELSE IF G.n > 1 /\ Len(G.edges) = 0
        THEN [start EXCEPT !.outcome = "no_edges", !.G = G]
      ELSE IF ~is_connected(G)
        THEN [start EXCEPT !.outcome = "not_connected", !.G = G,
                           !.parts = number_connected_components(G)]
      ELSE
        LET mesh_basis_nodes == cycle_basis(G)
            withG == [start EXCEPT !.G = G, !.parts = 1]
        IN  IF NoMeshes(mesh_basis_nodes)
              THEN [withG EXCEPT !.outcome = "no_loops"]
            ELSE
              LET pop == Populate(cs, G, mesh_edges_ordered(G, mesh_basis_nodes),
                                  1, 1,
                                  [R |-> ZeroMatrix(Len(mesh_basis_nodes)),
                                   V |-> Zeros(Len(mesh_basis_nodes))])
              IN  SolveMeshes([withG EXCEPT !.meshes = mesh_basis_nodes],
                              Finalize(pop.R), pop.V)

\* A variant of analyze_circuit that takes the connection lines it read out
\* of the scene.
analyze_circuit_Consuming ==
  /\ result' = Analysis(comps, wires)
  /\ wires' = <<>>
  /\ UNCHANGED <<comps, suspended, v1Vars, deltaVars, alphaVars>>

\* A variant of analyze_circuit whose traversal starts from the other end when
\* a result is already displayed.
analyze_circuit_Unstable ==
  /\ result' = IF result.outcome = "none"
                 THEN Analysis(comps, wires)
                 ELSE [Analysis(comps, wires) EXCEPT !.meshes = Reverse(@)]
  /\ UNCHANGED <<comps, wires, suspended, v1Vars, deltaVars, alphaVars>>

analyze_circuit ==
  /\ result' = Analysis(comps, wires)
  /\ UNCHANGED <<comps, wires, suspended, v1Vars, deltaVars, alphaVars>>

NextGamma ==
  \/ \E type \in {"R", "V"}, ok \in BOOLEAN :
       \E value \in (IF type = "R" THEN ResistanceInputs ELSE VoltageInputs) :
         add_component(type, value, ok)
  \/ \E i \in 1..Len(comps), ok \in BOOLEAN :
       \E value \in (IF comps[i].type = "R" THEN ResistanceInputs ELSE VoltageInputs) :
         mouseDoubleClickEvent(i, value, ok)
  \/ \E start \in SceneDots, end \in SceneDots : connect(start, end)
  \/ \E i \in 1..Len(comps) : scene_keyPressEvent(i)
  \/ clear_circuit
  \/ analyze_circuit

\* analyze_circuit up to QApplication.processEvents(): the label shows
\* "Analyzing circuit..." and the events that are pending are dispatched to
\* their handlers before the call goes on.
analyze_circuit_processEvents ==
  /\ suspended < MaxSuspended
  /\ result' = NoResult("analyzing")
  /\ suspended' = suspended + 1
  /\ UNCHANGED <<comps, wires, v1Vars, deltaVars, alphaVars>>

\* analyze_circuit from the return of processEvents() to its end: it reads
\* the items of the scene as they are now.
analyze_circuit_resume ==
  /\ suspended > 0
  /\ result' = Analysis(comps, wires)
  /\ suspended' = suspended - 1
  /\ UNCHANGED <<comps, wires, v1Vars, deltaVars, alphaVars>>

\* gamma with events pending when analyze_circuit calls processEvents().
NextGammaEvents ==
  \/ \E type \in {"R", "V"}, ok \in BOOLEAN :
       \E value \in (IF type = "R" THEN ResistanceInputs ELSE VoltageInputs) :
         add_component(type, value, ok)
  \/ \E i \in 1..Len(comps), ok \in BOOLEAN :
       \E value \in (IF comps[i].type = "R" THEN ResistanceInputs ELSE VoltageInputs) :
         mouseDoubleClickEvent(i, value, ok)
  \/ \E start \in SceneDots, end \in SceneDots : connect(start, end)
  \/ \E i \in 1..Len(comps) : scene_keyPressEvent(i)
  \/ clear_circuit
  \/ analyze_circuit_processEvents
  \/ analyze_circuit_resume

\* gamma with 0 V among the voltages the dialogs return.
NextGammaZero ==
  \/ \E type \in {"R", "V"}, ok \in BOOLEAN :
       \E value \in (IF type = "R" THEN ResistanceInputs ELSE VoltageInputsZero) :
         add_component(type, value, ok)
  \/ \E i \in 1..Len(comps), ok \in BOOLEAN :
       \E value \in (IF comps[i].type = "R" THEN ResistanceInputs ELSE VoltageInputsZero) :
         mouseDoubleClickEvent(i, value, ok)
  \/ \E start \in SceneDots, end \in SceneDots : connect(start, end)
  \/ \E i \in 1..Len(comps) : scene_keyPressEvent(i)
  \/ clear_circuit
  \/ analyze_circuit

(***************************************************************************)
(* V1: the text calculator.  main() asks for the counts, the resistances,  *)
(* one line of resistor IDs per mesh, the shared resistors, and then       *)
(* calculates.  A typed line is the list of its comma-separated tokens; an *)
(* uncaught exception ends the process ("crashed").                        *)
(***************************************************************************)
\* int(token.strip()): the tokens that are integers, and their values.
IntOf == ("1" :> 1) @@ ("2" :> 2) @@ ("3" :> 3)

IsInt(tok) == tok \in DOMAIN IntOf

NotCalculated ==
  [outcome |-> "none", R_matrix |-> <<>>, V_vector |-> <<>>, det |-> 0,
   solverCalled |-> FALSE, mesh_currents |-> <<>>]

InitMain ==
  /\ pc = "counts"
  /\ num_resistors = 0
  /\ voltage_source = 0
  /\ num_meshes = 0
  /\ resistor_values = <<>>
  /\ mesh_definitions = <<>>
  /\ num_shared = 0
  /\ shared_resistors = <<>>
  /\ calculated = NotCalculated

\* Where main() goes when a "for i in range(n)" loop has nothing left to ask.
AfterResistors(nm) == IF nm > 0 THEN "meshes" ELSE "num_shared"

\* main: the three get_input calls (each repeats until the text converts).
main(nr, v, nm) ==
  /\ pc = "counts"
  /\ num_resistors' = nr
  /\ voltage_source' = v
  /\ num_meshes' = nm
  /\ pc' = IF nr > 0 THEN "resistors" ELSE AfterResistors(nm)
  /\ UNCHANGED <<resistor_values, mesh_definitions, num_shared,
                 shared_resistors, calculated, gammaVars, deltaVars, alphaVars>>

\* get_resistor_values: one answer to "Enter resistance for R{i+1}".
get_resistor_values(r_val) ==
  /\ pc = "resistors"
  /\ IF r_val > 0
       THEN /\ resistor_values' = Append(resistor_values, r_val)
            /\ pc' = IF Len(resistor_values) + 1 = num_resistors
                       THEN AfterResistors(num_meshes) ELSE "resistors"
       ELSE UNCHANGED <<resistor_values, pc>>
  /\ UNCHANGED <<num_resistors, voltage_source, num_meshes, mesh_definitions,
                 num_shared, shared_resistors, calculated, gammaVars, deltaVars, alphaVars>>

\* get_mesh_definitions: one answer to "Enter resistor IDs for Mesh {i+1}".
\* int() is not guarded here: a token that is no integer raises ValueError
\* out of main().
get_mesh_definitions(res_ids_str) ==
  /\ pc = "meshes"
  /\ IF \E k \in 1..Len(res_ids_str) : ~IsInt(res_ids_str[k])
       THEN /\ pc' = "crashed"
            /\ UNCHANGED mesh_definitions
       ELSE LET res_ids == [k \in 1..Len(res_ids_str) |-> IntOf[res_ids_str[k]]]
            IN  IF \A k \in 1..Len(res_ids) : res_ids[k] \in 1..Len(resistor_values)
                  THEN /\ mesh_definitions' = Append(mesh_definitions, res_ids)
                       /\ pc' = IF Len(mesh_definitions) + 1 = num_meshes
                                  THEN "num_shared" ELSE "meshes"
                  ELSE UNCHANGED <<mesh_definitions, pc>>
  /\ UNCHANGED <<num_resistors, voltage_source, num_meshes, resistor_values,
                 num_shared, shared_resistors, calculated, gammaVars, deltaVars, alphaVars>>

\* get_shared_resistors: "Enter the number of shared resistors".
get_shared_count(n) ==
  /\ pc = "num_shared"
  /\ num_shared' = n
  /\ pc' = IF n > 0 THEN "shared" ELSE "calculate"
  /\ UNCHANGED <<num_resistors, voltage_source, num_meshes, resistor_values,
                 mesh_definitions, shared_resistors, calculated, gammaVars,
                 deltaVars, alphaVars>>

\* get_shared_resistors: one answer to "Enter shared resistor"; a line that
\* has not three parts, is not all integers or names no resistor / mesh is
\* asked again.
get_shared_resistors(parts) ==
  /\ pc = "shared"
  /\ IF Len(parts) = 3 /\ \A k \in 1..3 : IsInt(parts[k])
       THEN LET r_id == IntOf[parts[1]]
                mesh1_id == IntOf[parts[2]]
                mesh2_id == IntOf[parts[3]]
            IN  IF /\ 1 <= r_id /\ r_id <= num_resistors
                   /\ 1 <= mesh1_id /\ mesh1_id <= num_meshes
                   /\ 1 <= mesh2_id /\ mesh2_id <= num_meshes
                   /\ mesh1_id # mesh2_id
                  THEN /\ shared_resistors' =
                            Append(shared_resistors, <<r_id, mesh1_id, mesh2_id>>)
                       /\ pc' = IF Len(shared_resistors) + 1 = num_shared
                                  THEN "calculate" ELSE "shared"
                  ELSE UNCHANGED <<shared_resistors, pc>>
       ELSE UNCHANGED <<shared_resistors, pc>>
  /\ UNCHANGED <<num_resistors, voltage_source, num_meshes, resistor_values,
                 mesh_definitions, num_shared, calculated, gammaVars, deltaVars, alphaVars>>

\* sum(resistor_values[r_id] for r_id in res_ids): one term per listed ID.
RECURSIVE SumResistors(_, _, _)
SumResistors(values, res_ids, k) ==
  IF k > Len(res_ids) THEN 0
  ELSE values[res_ids[k]] + SumResistors(values, res_ids, k + 1)

\* A variant of ApplyShared that subtracts on one side of the diagonal only.
RECURSIVE ApplyShared_OneSide(_, _, _, _)
ApplyShared_OneSide(R, values, shared, k) ==
  IF k > Len(shared) THEN R
  ELSE LET r_val == values[shared[k][1]]
           idx1 == shared[k][2]
           idx2 == shared[k][3]
       IN  ApplyShared_OneSide([R EXCEPT ![idx1][idx2] = @ - r_val],
                               values, shared, k + 1)

\* "for r_id, mesh1_id, mesh2_id in shared_resistors": both off-diagonals.
RECURSIVE ApplyShared(_, _, _, _)
ApplyShared(R, values, shared, k) ==
  IF k > Len(shared) THEN R
  ELSE LET r_val == values[shared[k][1]]
           idx1 == shared[k][2]
           idx2 == shared[k][3]
       IN  ApplyShared([R EXCEPT ![idx1][idx2] = @ - r_val,
                                 ![idx2][idx1] = R[idx2][idx1] - r_val],
                       values, shared, k + 1)

\* R_matrix and V_vector as calculate_mesh_currents fills them.
R_matrix_of(nm, values, defs, shared) ==
  ApplyShared([i \in 1..nm |->
                 [j \in 1..nm |->
                    IF i = j THEN SumResistors(values, defs[i], 1) ELSE 0]],
              values, shared, 1)

V_vector_of(nm, v) == [i \in 1..nm |-> v]

\* calculate_mesh_currents and the rest of main().  np.zeros refuses a
\* negative size (ValueError, not caught); np.linalg.solve is called on
\* every matrix and raises LinAlgError on a singular one (the elimination of
\* these small whole-number matrices is exact).
calculate_mesh_currents ==
  /\ pc = "calculate"
  /\ IF num_meshes < 0
       THEN /\ pc' = "crashed"
            /\ UNCHANGED calculated
       ELSE LET R == R_matrix_of(num_meshes, resistor_values, mesh_definitions,
                                 shared_resistors)
                V == V_vector_of(num_meshes, voltage_source)
                base == [NotCalculated EXCEPT !.R_matrix = R, !.V_vector = V,
                                              !.det = Det(R), !.solverCalled = TRUE]
            IN  /\ pc' = "done"
                /\ calculated' =
                     IF Det(R) = 0
                       THEN [base EXCEPT !.outcome = "cannot_solve"]
                       ELSE [base EXCEPT !.outcome = "solved",
                                         !.mesh_currents = CramerNum(R, V)]
  /\ UNCHANGED <<num_resistors, voltage_source, num_meshes, resistor_values,
                 mesh_definitions, num_shared, shared_resistors, gammaVars,
                 deltaVars, alphaVars>>

\* The lines a user can type: 1..n tokens between commas.
Lines(n) == UNION {[1..k -> V1Tokens] : k \in 1..n}

NextV1 ==
  \/ \E nr \in 0..MaxResistors, v \in V1Voltages, nm \in -1..MaxMeshes :
       main(nr, v, nm)
  \/ \E r_val \in V1Resistances : get_resistor_values(r_val)
  \/ \E res_ids_str \in Lines(MaxIds) : get_mesh_definitions(res_ids_str)
  \/ \E n \in 0..MaxShared : get_shared_count(n)
  \/ \E parts \in Lines(3) : get_shared_resistors(parts)
  \/ calculate_mesh_currents

\* V1 run with as many resistors as meshes, MaxMeshes of each, and one
\* resistor ID on the line of every mesh: the shared-resistor entries are
\* what varies.
NextV1Shared ==
  \/ \E v \in V1Voltages : main(MaxMeshes, v, MaxMeshes)
  \/ \E r_val \in V1Resistances : get_resistor_values(r_val)
  \/ \E res_ids_str \in Lines(1) : get_mesh_definitions(res_ids_str)
  \/ \E n \in 0..MaxShared : get_shared_count(n)
  \/ \E parts \in Lines(3) : get_shared_resistors(parts)
  \/ calculate_mesh_currents

(***************************************************************************)
(* delta: NodeAnalysisWindow.  enter_data opens modal dialogs one after    *)
(* the other; dialog is the dialog it is waiting in.  The graph is         *)
(* [nodes, edges]: an nx.Graph keeps one edge per pair of nodes, and       *)
(* add_edge on a pair that has an edge replaces its attributes.            *)
(***************************************************************************)
\* chr(ord('A') + i).
NodeNames == <<"A", "B", "C", "D", "E", "F">>

\* f"R{i + 1}".
ResistorNames == <<"R1", "R2", "R3", "R4", "R5">>

EmptyMap == [x \in {} |-> 0]

\* What the last solve_analysis did: the graph and ground node it read, the
\* equations Y * V = rhs over the unknowns it generated, and what it showed.
NoOutput ==
  [shown |-> "none", graph |-> [nodes |-> <<>>, edges |-> <<>>], ground |-> "",
   unknowns |-> <<>>, Y |-> <<>>, rhs |-> <<>>, det |-> 0]

InitWindow ==
  /\ window = [nodes |-> <<>>, num_resistors |-> 0,
               voltage_source_present |-> FALSE,
               voltage_source_data |-> [node1 |-> "", node2 |-> "", value |-> 0],
               resistor_data |-> <<>>,
               graph |-> [nodes |-> <<>>, edges |-> <<>>],
               components |-> EmptyMap,
               ground_node |-> "",
               solve_enabled |-> FALSE,
               solutions |-> EmptyMap,
               output |-> NoOutput]
  /\ dialog = "idle"

\* No circuit has been built yet.  NextDelta explores entering data until a
\* circuit has been built and solves it from then on; NextDeltaAgain goes on
\* entering data.
Entering == ~window.solve_enabled

\* enter_data up to the battery dialog.  valid = FALSE: one of the two
\* counts is not an integer (ValueError, caught, nothing assigned).
enter_data(num_nodes, nr, valid) ==
  /\ dialog = "idle"
  /\ IF ~valid THEN UNCHANGED <<window, dialog>>
     ELSE IF num_nodes < 2 \/ nr < 1 \/ nr # num_nodes - 1
       THEN /\ window' = [window EXCEPT !.num_resistors = nr]
            /\ UNCHANGED dialog
     ELSE /\ window' = [window EXCEPT !.num_resistors = nr,
                                      !.nodes = SubSeq(NodeNames, 1, num_nodes)]
          /\ dialog' = "battery"
  /\ UNCHANGED <<gammaVars, v1Vars, alphaVars>>

\* BatteryDialog.exec() returned.
battery_dialog(accepted, node1, node2, voltage) ==
  /\ dialog = "battery"
  /\ IF accepted /\ node1 # node2 /\ voltage > 0
       THEN /\ window' = [window EXCEPT
                            !.voltage_source_present = TRUE,
                            !.voltage_source_data =
                               [node1 |-> node1, node2 |-> node2, value |-> voltage],
                            !.resistor_data = <<>>]
            /\ dialog' = "resistor"
       ELSE /\ dialog' = "idle"
            /\ UNCHANGED window
  /\ UNCHANGED <<gammaVars, v1Vars, alphaVars>>

\* graph.add_edge(u, v, type=, value=, name=).
add_edge(G, u, v, type, value, name) ==
  LET e == [u |-> u, v |-> v, type |-> type, value |-> value, name |-> name]
  IN  IF \E k \in 1..Len(G.edges) : {G.edges[k].u, G.edges[k].v} = {u, v}
        THEN [G EXCEPT !.edges =
                [k \in 1..Len(G.edges) |->
                   IF {G.edges[k].u, G.edges[k].v} = {u, v}
                     THEN [e EXCEPT !.u = G.edges[k].u, !.v = G.edges[k].v]
                     ELSE G.edges[k]]]
        ELSE [G EXCEPT !.edges = Append(@, e)]

\* "for i, resistor_data in enumerate(self.resistor_data)": resistor i + 1
\* goes between node_list[i] and node_list[i + 1].
RECURSIVE AddResistors(_, _, _, _)
AddResistors(w, node_list, data, i) ==
  IF i > Len(data) THEN w
  ELSE LET name == ResistorNames[i]
           node1 == node_list[i]
           node2 == node_list[i + 1]
           resistance == data[i].resistance
       IN  AddResistors(
             [w EXCEPT
                !.graph = add_edge(@, node1, node2, "Resistor", resistance, name),
                !.components =
                   (name :> [type |-> "Resistor", node1 |-> node1,
                             node2 |-> node2, value |-> resistance]) @@ @],
             node_list, data, i + 1)

\* graph.degree(node).
Degree(G, node) ==
  Cardinality({k \in 1..Len(G.edges) : node \in {G.edges[k].u, G.edges[k].v}})

\* A variant of choose_ground_node that takes the last of the nodes of
\* highest degree.
choose_ground_node_Last(G) ==
  LET best == CHOOSE k \in 1..Len(G.nodes) :
                /\ \A j \in 1..Len(G.nodes) :
                     Degree(G, G.nodes[j]) <= Degree(G, G.nodes[k])
                /\ \A j \in (k + 1)..Len(G.nodes) :
                     Degree(G, G.nodes[j]) < Degree(G, G.nodes[k])
  IN  G.nodes[best]

\* choose_ground_node: max(degrees, key=degrees.get), the first of the nodes
\* of highest degree.
choose_ground_node(G) ==
  LET best == CHOOSE k \in 1..Len(G.nodes) :
                /\ \A j \in 1..Len(G.nodes) :
                     Degree(G, G.nodes[j]) <= Degree(G, G.nodes[k])
                /\ \A j \in 1..(k - 1) :
                     Degree(G, G.nodes[j]) < Degree(G, G.nodes[k])
  IN  G.nodes[best]

\* enter_data after the last resistor dialog: the graph, the components,
\* the buttons and the ground node.
BuildCircuit(w) ==
  LET node_names == w.nodes
      vs == w.voltage_source_data
      g0 == [nodes |-> node_names, edges |-> <<>>]
      w1 == [w EXCEPT
               !.graph = add_edge(g0, vs.node1, vs.node2, "Voltage Source",
                                  vs.value, "Vs"),
               !.components =
                  ("Vs" :> [type |-> "Voltage Source", node1 |-> vs.node1,
                            node2 |-> vs.node2, value |-> vs.value]) @@ @]
      w2 == AddResistors(w1, node_names, w.resistor_data, 1)
      w3 == IF Len(node_names) = 3
              THEN [w2 EXCEPT
                      !.graph = add_edge(@, node_names[1], node_names[3],
                                         "Resistor", 1, "R3"),
                      !.components =
                         ("R3" :> [type |-> "Resistor", node1 |-> node_names[1],
                                   node2 |-> node_names[3], value |-> 1]) @@ @]
              ELSE w2
  IN  [w3 EXCEPT !.solve_enabled = TRUE,
                 !.ground_node = choose_ground_node(w3.graph)]

\* A variant of resistor_dialog that takes a resistor with both terminals on
\* one node.
resistor_dialog_SameNode(accepted, node1, node2, resistance) ==
  /\ dialog = "resistor"
  /\ IF accepted /\ resistance > 0
       THEN LET w == [window EXCEPT !.resistor_data =
                        Append(@, [node1 |-> node1, node2 |-> node2,
                                   resistance |-> resistance])]
            IN  IF Len(w.resistor_data) = w.num_resistors
                  THEN /\ window' = BuildCircuit(w)
                       /\ dialog' = "idle"
                  ELSE /\ window' = w
                       /\ UNCHANGED dialog
       ELSE /\ dialog' = "idle"
            /\ UNCHANGED window
  /\ UNCHANGED <<gammaVars, v1Vars, alphaVars>>

\* ResistorDialog.exec() returned for resistor Len(resistor_data) + 1; after
\* the last one enter_data runs to its end.
resistor_dialog(accepted, node1, node2, resistance) ==
  /\ dialog = "resistor"
  /\ IF accepted /\ node1 # node2 /\ resistance > 0
       THEN LET w == [window EXCEPT !.resistor_data =
                        Append(@, [node1 |-> node1, node2 |-> node2,
                                   resistance |-> resistance])]
            IN  IF Len(w.resistor_data) = w.num_resistors
                  THEN /\ window' = BuildCircuit(w)
                       /\ dialog' = "idle"
                  ELSE /\ window' = w
                       /\ UNCHANGED dialog
       ELSE /\ dialog' = "idle"
            /\ UNCHANGED window
  /\ UNCHANGED <<gammaVars, v1Vars, alphaVars>>

(***************************************************************************)
(* delta: generate_node_equations and solve_analysis.  The equation of a   *)
(* node is kept as its coefficients on the unknown node voltages and its   *)
(* constant, all multiplied by Scale, the product of the resistances of    *)
(* the graph, so that every conductance Scale / R is a whole number.       *)
(***************************************************************************)
RECURSIVE ScaleFrom(_, _)
ScaleFrom(edges, k) ==
  IF k > Len(edges) THEN 1
  ELSE (IF edges[k].type = "Resistor" THEN edges[k].value ELSE 1)
       * ScaleFrom(edges, k + 1)

Scale(G) == ScaleFrom(G.edges, 1)

\* A variant of EdgeFactor that multiplies by the resistance.
EdgeFactor_Times(G, e) == IF e.type = "Resistor" THEN Scale(G) * e.value ELSE 0

\* The factor of (V_node - V_neighbor) on an edge: 1 / value on a resistor,
\* 1 / sp.oo = 0 on a voltage source.
EdgeFactor(G, e) == IF e.type = "Resistor" THEN Scale(G) \div e.value ELSE 0

\* The coefficient of the unknown x in the equation of node, from edge k on.
RECURSIVE Coefficient(_, _, _, _, _)
Coefficient(G, ground, node, x, k) ==
  IF k > Len(G.edges) THEN 0
  ELSE LET e == G.edges[k]
           neighbor == IF e.u = node THEN e.v ELSE e.u
           term == IF node \notin {e.u, e.v} THEN 0
                   ELSE (IF x = node THEN EdgeFactor(G, e) ELSE 0)
                        - (IF x = neighbor /\ neighbor # ground
                             THEN EdgeFactor(G, e) ELSE 0)
       IN  term + Coefficient(G, ground, node, x, k + 1)

\* node_voltages: the nodes of self.nodes other than the ground node.
Unknowns(w) == SelectSeq(w.nodes, LAMBDA n : n # w.ground_node)

\* generate_node_equations raises: graph.neighbors of a node the graph does
\* not have (NetworkXError), node_voltages of a neighbor that is no unknown
\* (KeyError).
EquationsRaise(w) ==
  LET unknowns == Unknowns(w)
      names == {unknowns[k] : k \in 1..Len(unknowns)}
      gnodes == {w.graph.nodes[k] : k \in 1..Len(w.graph.nodes)}
  IN  \/ \E n \in names : n \notin gnodes
      \/ \E k \in 1..Len(w.graph.edges), n \in names :
           LET e == w.graph.edges[k]
           IN  /\ n \in {e.u, e.v}
               /\ \E m \in {e.u, e.v} \ {n} : m # w.ground_node /\ m \notin names

generate_node_equations(w) ==
  LET unknowns == Unknowns(w)
  IN  [Y |-> [i \in 1..Len(unknowns) |->
                [j \in 1..Len(unknowns) |->
                   Coefficient(w.graph, w.ground_node, unknowns[i], unknowns[j], 1)]],
       rhs |-> Zeros(Len(unknowns))]

\* solve_analysis: sp.solve of the equations; a system without a unique
\* solution shows no node voltages.
solve_analysis ==
  /\ dialog = "idle"
  /\ window.solve_enabled
  /\ LET unknowns == Unknowns(window)
         base == [NoOutput EXCEPT !.graph = window.graph,
                                  !.ground = window.ground_node,
                                  !.unknowns = unknowns]
     IN  IF EquationsRaise(window)
           THEN window' = [window EXCEPT !.output = [base EXCEPT !.shown = "exception"]]
         ELSE IF Len(unknowns) = 0
           THEN window' = [window EXCEPT !.output = [base EXCEPT !.shown = "no_equations"]]
         ELSE
           LET equations == generate_node_equations(window)
               det == Det(equations.Y)
               out == [base EXCEPT !.Y = equations.Y, !.rhs = equations.rhs,
                                   !.det = det]
           IN  IF det = 0
                 THEN window' = [window EXCEPT
                                   !.solutions = EmptyMap,
                                   !.output = [out EXCEPT !.shown = "no_solution"]]
                 ELSE window' = [window EXCEPT
                                   !.solutions =
                                      LET num == CramerNum(equations.Y, equations.rhs)
                                      IN  [n \in {unknowns[k] : k \in 1..Len(unknowns)} |->
                                             num[CHOOSE k \in 1..Len(unknowns) : unknowns[k] = n]],
                                   !.output = [out EXCEPT !.shown = "solved"]]
  /\ UNCHANGED <<dialog, gammaVars, v1Vars, alphaVars>>

\* The node names a dialog's two combo boxes offer.
DialogNodes == {window.nodes[k] : k \in 1..Len(window.nodes)}

\* The pairs chosen in the dialog of resistor i: the combo boxes as they
\* open (both on the first node), the two nodes the resistor is then put
\* between, and the last node with the first.
ResistorEnds ==
  LET i == Len(window.resistor_data) + 1
      n == Len(window.nodes)
  IN  {<<window.nodes[1], window.nodes[1]>>,
       <<window.nodes[i], window.nodes[i + 1]>>,
       <<window.nodes[n], window.nodes[1]>>}

NextDelta ==
  \/ \E num_nodes \in 1..MaxNodes, nr \in 0..(MaxNodes - 1), valid \in BOOLEAN :
       Entering /\ enter_data(num_nodes, nr, valid)
  \/ \E accepted \in BOOLEAN, node1 \in DialogNodes, node2 \in DialogNodes,
        voltage \in DeltaVoltages :
       battery_dialog(accepted, node1, node2, voltage)
  \/ \E accepted \in BOOLEAN, resistance \in DeltaResistances :
       dialog = "resistor" /\ \E ends \in ResistorEnds :
         resistor_dialog(accepted, ends[1], ends[2], resistance)
  \/ solve_analysis

\* The terminals chosen in the battery dialog when data are entered again:
\* the first node with the last, and the node before the last with the first.
BatteryEnds ==
  LET n == Len(window.nodes)
  IN  {<<window.nodes[1], window.nodes[n]>>, <<window.nodes[n - 1], window.nodes[1]>>}

\* delta with "Enter Data" pressed again after a circuit has been built: the
\* counts are valid or the resistors are none, the battery has 10 V, every
\* resistor has 1 ohm and is put where the build puts it.
NextDeltaAgain ==
  \/ \E num_nodes \in 1..MaxNodes, valid \in BOOLEAN :
       \E nr \in {0, num_nodes - 1} : enter_data(num_nodes, nr, valid)
  \/ \E accepted \in BOOLEAN :
       dialog = "battery" /\ \E ends \in BatteryEnds :
         battery_dialog(accepted, ends[1], ends[2], 10)
  \/ \E accepted \in BOOLEAN :
       dialog = "resistor" /\
         LET i == Len(window.resistor_data) + 1
         IN  resistor_dialog(accepted, window.nodes[i], window.nodes[i + 1], 1)
  \/ solve_analysis


(***************************************************************************)
(* alpha: the pygame editor, CircuitSimulator.handle_events.  Points are   *)
(* <<x, y>> in pixels; None is <<>>; components are named by their place   *)
(* in self.components, 0 for None.                                         *)
(***************************************************************************)
None == <<>>

\* Component.update_nodes.
update_nodes(c) ==
  [c EXCEPT !.nodes =
     IF c.type = "battery"
       THEN << <<c.x, c.y - 40>>, <<c.x, c.y + 40>> >>
       ELSE << <<c.x - 40, c.y>>, <<c.x + 40, c.y>> >>]

\* Component(x, y, type_, value).
Component(x, y, type, value) ==
  update_nodes([x |-> x, y |-> y, type |-> type, value |-> value, nodes |-> <<>>])

\* Component.move.
move(c, dx, dy) == update_nodes([c EXCEPT !.x = @ + dx, !.y = @ + dy])

\* Wire.update_position.
update_position(wire, old_pos, new_pos) ==
  LET w1 == IF wire.start = old_pos THEN [wire EXCEPT !.start = new_pos] ELSE wire
  IN  IF w1.end = old_pos THEN [w1 EXCEPT !.end = new_pos] ELSE w1

\* The loop "for node in self.dragging.nodes" of the drag on one wire, from
\* the k-th node on.
RECURSIVE update_wire(_, _, _, _, _)
update_wire(wire, nodes, k, dx, dy) ==
  IF k > Len(nodes) THEN wire
  ELSE update_wire(update_position(wire, nodes[k],
                                   <<nodes[k][1] + dx, nodes[k][2] + dy>>),
                   nodes, k + 1, dx, dy)

\* The hit test of handle_events on a component.
Hit(c, mouse_pos) ==
  /\ c.x - 40 < mouse_pos[1] /\ mouse_pos[1] < c.x + 40
  /\ c.y - 40 < mouse_pos[2] /\ mouse_pos[2] < c.y + 40

\* math.dist(pos, node) < 15.
Near(pos, node) ==
  (pos[1] - node[1]) * (pos[1] - node[1])
    + (pos[2] - node[2]) * (pos[2] - node[2]) < 15 * 15

\* CircuitSimulator.find_near_node: the first node in list order.
find_near_node(pos) ==
  LET near == {cn \in (1..Len(sim.components)) \X (1..2) :
                 Near(pos, sim.components[cn[1]].nodes[cn[2]])}
  IN  IF near = {} THEN None
      ELSE LET first == CHOOSE cn \in near :
                          \A other \in near :
                            \/ cn[1] < other[1]
                            \/ cn[1] = other[1] /\ cn[2] <= other[2]
           IN  sim.components[first[1]].nodes[first[2]]

\* CircuitSimulator.validate_wire_connection.
validate_wire_connection(start_node, end_node) ==
  /\ start_node # end_node
  /\ ~\E k \in 1..Len(sim.wires) :
        \/ sim.wires[k].start = start_node /\ sim.wires[k].end = end_node
        \/ sim.wires[k].start = end_node /\ sim.wires[k].end = start_node

\* The last component of cs under the mouse, 0 for none: the selection loop
\* at the end of a MOUSEBUTTONDOWN.
Selected(cs, mouse_pos) ==
  LET hit == {i \in 1..Len(cs) : Hit(cs[i], mouse_pos)}
  IN  IF hit = {} THEN 0 ELSE CHOOSE i \in hit : \A j \in hit : j <= i

\* The first component under the mouse, 0 for none.
Clicked(mouse_pos) ==
  LET hit == {i \in 1..Len(sim.components) : Hit(sim.components[i], mouse_pos)}
  IN  IF hit = {} THEN 0 ELSE CHOOSE i \in hit : \A j \in hit : i <= j

\* The points of the workspace the mouse is pressed on.
ClickPoints ==
  Spots
    \cup {<<sim.components[i].x, sim.components[i].y>> : i \in 1..Len(sim.components)}
    \cup {sim.components[i].nodes[n] : i \in 1..Len(sim.components), n \in 1..2}

InitSimulator ==
  sim = [current_screen |-> "menu",
         components |-> <<>>,
         wires |-> <<>>,
         current_tool |-> "none",
         wire_start |-> None,
         dragging |-> 0,
         selected_component |-> 0]

\* A left click on the menu button "New Circuit".
new_circuit ==
  /\ sim.current_screen = "menu"
  /\ sim' = [sim EXCEPT !.current_screen = "main", !.selected_component = 0]
  /\ UNCHANGED <<gammaVars, v1Vars, deltaVars>>

\* A left click on a tool button: Battery, Resistor or Wire.
select_tool(tool) ==
  /\ sim.current_screen = "main"
  /\ sim.dragging = 0
  /\ sim' = [sim EXCEPT !.current_tool = tool, !.selected_component = 0]
  /\ UNCHANGED <<gammaVars, v1Vars, deltaVars>>

\* A left click on the control button "Clear All".
clear_all ==
  /\ sim.current_screen = "main"
  /\ sim.dragging = 0
  /\ sim' = [sim EXCEPT !.components = <<>>, !.wires = <<>>,
                        !.selected_component = 0]
  /\ UNCHANGED <<gammaVars, v1Vars, deltaVars>>

\* MOUSEBUTTONDOWN, left button, on the point mouse_pos of the workspace:
\* the wire tool starts or ends a wire on the node found there; otherwise the
\* first component under the mouse is taken for dragging, or the tool's
\* component is put there.  The component under the mouse is selected.
mouse_down(mouse_pos) ==
  /\ sim.current_screen = "main"
  /\ sim.dragging = 0
  /\ IF sim.current_tool = "wire"
       THEN LET node == find_near_node(mouse_pos)
                s1 == IF node = None THEN sim
                      ELSE IF sim.wire_start = None
                        THEN [sim EXCEPT !.wire_start = node]
                      ELSE IF validate_wire_connection(sim.wire_start, node)
                        THEN [sim EXCEPT
                                !.wires = Append(@, [start |-> sim.wire_start,
                                                     end |-> node]),
                                !.wire_start = None]
                      ELSE [sim EXCEPT !.wire_start = None]
            IN  /\ Len(s1.wires) <= MaxWires
                /\ sim' = [s1 EXCEPT !.selected_component =
                                       Selected(s1.components, mouse_pos)]
       ELSE LET clicked == Clicked(mouse_pos)
                s1 == IF clicked # 0 THEN [sim EXCEPT !.dragging = clicked]
                      ELSE IF sim.current_tool \in {"battery", "resistor"}
                        THEN [sim EXCEPT
                                !.components =
                                  Append(@, Component(mouse_pos[1], mouse_pos[2],
                                                      sim.current_tool,
                                                      IF sim.current_tool = "battery"
                                                        THEN 9 ELSE 100)),
                                !.current_tool = "none"]
                      ELSE sim
            IN  /\ Len(s1.components) <= MaxParts
                /\ sim' = [s1 EXCEPT !.selected_component =
                                       Selected(s1.components, mouse_pos)]
  /\ UNCHANGED <<gammaVars, v1Vars, deltaVars>>

\* MOUSEMOTION by event.rel = (dx, dy) while a component is dragged: the
\* component moves, then every wire is updated for the nodes of the
\* component.
mouse_motion(dx, dy) ==
  /\ sim.dragging # 0
  /\ LET moved == move(sim.components[sim.dragging], dx, dy)
     IN  /\ moved.x \in DragXs
         /\ moved.y \in DragYs
         /\ sim' = [sim EXCEPT
                      !.components[sim.dragging] = moved,
                      !.wires = [k \in 1..Len(sim.wires) |->
                                   update_wire(sim.wires[k], moved.nodes, 1, dx, dy)]]
  /\ UNCHANGED <<gammaVars, v1Vars, deltaVars>>

\* MOUSEBUTTONUP.
mouse_up ==
  /\ sim.dragging # 0
  /\ sim' = [sim EXCEPT !.dragging = 0]
  /\ UNCHANGED <<gammaVars, v1Vars, deltaVars>>

\* KEYDOWN K_DELETE with a component selected, the mouse button up.
key_delete ==
  /\ sim.current_screen = "main"
  /\ sim.dragging = 0
  /\ sim.selected_component # 0
  /\ sim' = [sim EXCEPT !.components = RemoveAt(@, sim.selected_component),
                        !.selected_component = 0]
  /\ UNCHANGED <<gammaVars, v1Vars, deltaVars>>

NextAlpha ==
  \/ new_circuit
  \/ \E tool \in Tools : select_tool(tool)
  \/ clear_all
  \/ \E mouse_pos \in ClickPoints :
       /\ sim.current_tool \in {"battery", "resistor"} => mouse_pos \in Spots
       /\ mouse_down(mouse_pos)
  \/ \E d \in Offsets : mouse_motion(d[1], d[2])
  \/ mouse_up
  \/ key_delete

(***************************************************************************)
(* The specifications: one program runs, the others stay as constructed.   *)
(***************************************************************************)
Init == InitScene /\ InitMain /\ InitWindow /\ InitSimulator

SpecGamma == Init /\ [][NextGamma]_vars

SpecGammaZero == Init /\ [][NextGammaZero]_vars

SpecGammaEvents == Init /\ [][NextGammaEvents]_vars

SpecV1 == Init /\ [][NextV1]_vars

SpecV1Shared == Init /\ [][NextV1Shared]_vars

SpecDelta == Init /\ [][NextDelta]_vars

SpecDeltaAgain == Init /\ [][NextDeltaAgain]_vars

SpecAlpha == Init /\ [][NextAlpha]_vars

(***************************************************************************)
(* gamma: properties of analyze_circuit.  While a result is displayed the  *)
(* scene is the scene that was analysed, so a property may read both.      *)
(***************************************************************************)
Analysed == result.outcome # "none"

\* The matrix and the vector were assembled.
Assembled == result.outcome \in {"singular", "solved"}

\* The closed walk mesh steps from junction a directly to junction b.
Traverses(mesh, a, b) ==
  \E k \in 1..Len(mesh) : mesh[k] = a /\ mesh[(k % Len(mesh)) + 1] = b

\* Junction A (dot1, the "+" terminal) and junction B (dot2) of component c.
JunctionA(c) == NodeOf(comps, <<c, 1>>)
JunctionB(c) == NodeOf(comps, <<c, 2>>)

OnMesh(mesh, c) ==
  Traverses(mesh, JunctionA(c), JunctionB(c)) \/ Traverses(mesh, JunctionB(c), JunctionA(c))

\* The EMF the sources 1..c owe to a mesh: + value from B to A, - value from
\* A to B, nothing for a source the mesh does not traverse.
RECURSIVE SourceSum(_, _)
SourceSum(mesh, c) ==
  IF c = 0 THEN 0
  ELSE SourceSum(mesh, c - 1)
       + (IF comps[c].type # "V" THEN 0
          ELSE IF Traverses(mesh, JunctionB(c), JunctionA(c)) THEN comps[c].value
          ELSE IF Traverses(mesh, JunctionA(c), JunctionB(c)) THEN -comps[c].value
          ELSE 0)

\* The resistance of the resistors 1..c that lie on every mesh of ms.
RECURSIVE ResistorSum(_, _)
ResistorSum(ms, c) ==
  IF c = 0 THEN 0
  ELSE ResistorSum(ms, c - 1)
       + (IF comps[c].type = "R" /\ \A m \in ms : OnMesh(m, c)
            THEN comps[c].value ELSE 0)

\* The matrix the resistors alone determine.
ResistorMatrix(meshes) ==
  [i \in 1..Len(meshes) |->
     [j \in 1..Len(meshes) |->
        IF i = j THEN ResistorSum({meshes[i]}, Len(comps))
        ELSE -ResistorSum({meshes[i], meshes[j]}, Len(comps))]]

\* C2: in gamma's mesh assembly a voltage source traversed by mesh i from its
\* B junction to its A junction adds its EMF to b[i], one traversed from A to
\* B subtracts it, a source mesh i does not traverse contributes nothing to
\* b[i], and no source changes an entry of A (A is what the resistors give).
C2_SourceSigns ==
  Assembled =>
    /\ \A i \in 1..Len(result.meshes) :
         result.V[i] = SourceSum(result.meshes[i], Len(comps))
    /\ result.R = ResistorMatrix(result.meshes)

\* Two meshes, a source on one of them only, traversed from B to A.
C2_Witness ==
  /\ Assembled
  /\ \E i, j \in 1..Len(result.meshes), c \in 1..Len(comps) :
       /\ comps[c].type = "V"
       /\ comps[c].value > 0
       /\ Traverses(result.meshes[i], JunctionB(c), JunctionA(c))
       /\ result.V[i] = comps[c].value
       /\ ~OnMesh(result.meshes[j], c)
       /\ result.V[j] = 0

\* A source traversed from A to B by some mesh of an assembled system.
C2_WitnessMinus ==
  /\ Assembled
  /\ \E i \in 1..Len(result.meshes), c \in 1..Len(comps) :
       /\ comps[c].type = "V"
       /\ Traverses(result.meshes[i], JunctionA(c), JunctionB(c))
       /\ result.V[i] = -comps[c].value

\* C3: for a connected graph the number of meshes found, which is the size
\* of the resistance matrix, is #branches - #junctions + #components; the
\* graph has one branch per component and per connection line and one
\* junction per dot.
C3_MeshCount ==
  (result.outcome \in {"no_loops", "singular", "solved"}) =>
    /\ result.G = build_graph(comps, wires)
    /\ Len(result.G.edges) = Len(comps) + Len(wires)
    /\ result.G.n = 2 * Len(comps)
    /\ Len(result.meshes) =
         Len(result.G.edges) - result.G.n + number_connected_components(result.G)
    /\ Assembled =>
         /\ Len(result.R) = Len(result.meshes)
         /\ Len(result.V) = Len(result.meshes)
         /\ \A i \in 1..Len(result.R) : Len(result.R[i]) = Len(result.meshes)

\* A connected graph with two independent loops.
C3_Witness ==
  /\ Assembled
  /\ Len(result.meshes) = 2
  /\ Len(result.G.edges) - result.G.n + 1 = 2

\* C6: a mesh that traverses no resistor (two ideal sources in parallel are
\* one) ends the solve in the singular failure with no numeric solution.
C6_NoResistorSingular ==
  /\ (Assembled /\ \E i \in 1..Len(result.meshes) :
         \A c \in 1..Len(comps) :
           comps[c].type = "R" => ~OnMesh(result.meshes[i], c))
       => /\ result.outcome = "singular"
          /\ result.currents = <<>>
          /\ ~result.solverCalled
  /\ (Analysed /\ Len(comps) = 2 /\ Len(wires) >= 2
        /\ \A c \in 1..Len(comps) : comps[c].type = "V")
       => result.outcome = "singular"

\* Two sources wired in parallel, analysed.
C6_Witness ==
  /\ result.outcome = "singular"
  /\ Len(comps) = 2
  /\ \A c \in 1..Len(comps) : comps[c].type = "V" /\ comps[c].value > 0
  /\ {<<1, 1>>, <<2, 1>>} \in {wires[k] : k \in 1..Len(wires)}
  /\ {<<1, 2>>, <<2, 2>>} \in {wires[k] : k \in 1..Len(wires)}

\* C7: a graph of more than one connected component ends the mesh analysis
\* in a not-connected failure ("No connections found" when there is no
\* connection line at all, "Circuit is not fully connected" otherwise), with
\* no cycle extraction, no matrix, no solve.
C7_NotConnected ==
  (Analysed /\ Len(comps) > 0
     /\ number_connected_components(build_graph(comps, wires)) > 1)
    => /\ result.outcome \in {"no_connections", "not_connected"}
       /\ result.meshes = <<>>
       /\ result.R = <<>>
       /\ result.V = <<>>
       /\ result.currents = <<>>
       /\ ~result.solverCalled

\* Wires are present and the graph still falls into two parts.
C7_Witness ==
  /\ result.outcome = "not_connected"
  /\ result.parts = 2
  /\ Len(wires) >= 1

\* C8: a connected graph without a cycle (a tree) gives no mesh: the
\* analysis ends in the no-closed-loops failure, no matrix, no solve.
C8_TreeNoLoops ==
  (Analysed /\ Len(comps) > 0
     /\ LET G == build_graph(comps, wires)
        IN  number_connected_components(G) = 1 /\ Len(G.edges) = G.n - 1)
    => /\ result.outcome = "no_loops"
       /\ result.meshes = <<>>
       /\ result.R = <<>>
       /\ result.V = <<>>
       /\ result.currents = <<>>
       /\ ~result.solverCalled

\* Two components in series, left open.
C8_Witness ==
  /\ result.outcome = "no_loops"
  /\ Len(comps) = 2
  /\ Len(wires) = 1

\* R_temp is symmetric before finalization, so (R_temp + R_temp.T) / 2 is exact.
FinalizeExact ==
  Assembled =>
    LET R_temp == R_temp_of(comps, result.G, result.meshes)
    IN  \A i, j \in 1..Len(R_temp) : R_temp[i][j] = R_temp[j][i]

(***************************************************************************)
(* V1: properties of calculate_mesh_currents and of main().                *)
(***************************************************************************)
\* The resistors mesh i traverses: the IDs on its line, each one resistor.
MeshResistors(i) == {mesh_definitions[i][k] : k \in 1..Len(mesh_definitions[i])}

\* The resistance of the resistors of ids, each counted once.
RECURSIVE SetSum(_)
SetSum(ids) ==
  IF ids = {} THEN 0
  ELSE LET r == CHOOSE r \in ids : TRUE
       IN  resistor_values[r] + SetSum(ids \ {r})

\* C1: in V1's mesh assembly every resistor mesh i traverses adds its
\* resistance to A[i][i] exactly once and is subtracted from A[i][j] for
\* every other mesh j that traverses it too; no other entry of A and no
\* entry of b changes.
C1_ResistorEntries ==
  (calculated.outcome # "none") =>
    /\ \A i, j \in 1..num_meshes :
         calculated.R_matrix[i][j] =
           IF i = j THEN SetSum(MeshResistors(i))
           ELSE -SetSum(MeshResistors(i) \cap MeshResistors(j))
    /\ \A i \in 1..num_meshes : calculated.V_vector[i] = voltage_source

\* C5: on V1's solve path the determinant is compared with 1e-9; below it
\* the run fails without currents, and the solver is called only at or
\* above it.
C5_DeterminantGuard ==
  (calculated.outcome # "none") =>
    /\ calculated.solverCalled => ~BelowTolerance(calculated.det)
    /\ BelowTolerance(calculated.det) =>
         calculated.outcome # "solved" /\ calculated.mesh_currents = <<>>

\* C9: no input to V1 raises an exception nothing catches.
C9_NoUncaughtException == pc # "crashed"

(***************************************************************************)
(* delta: properties of enter_data and of solve_analysis.                  *)
(***************************************************************************)
\* The graph is the one enter_data built from the data the window holds.
GraphCurrent ==
  /\ dialog = "idle"
  /\ window.solve_enabled
  /\ window.graph.nodes = window.nodes
  /\ Len(window.resistor_data) = window.num_resistors

\* The graph has an edge between u and v with these attributes.
EdgeFor(G, u, v, type, value) ==
  \E k \in 1..Len(G.edges) :
    /\ {G.edges[k].u, G.edges[k].v} = {u, v}
    /\ G.edges[k].type = type
    /\ G.edges[k].value = value

\* The nodes the entered branches reference.
BranchNodes ==
  {window.voltage_source_data.node1, window.voltage_source_data.node2}
  \cup UNION {{window.resistor_data[k].node1, window.resistor_data[k].node2} :
                k \in 1..Len(window.resistor_data)}

\* C4: delta's graph build maps every entered branch to exactly one edge
\* between the two junctions entered for it, with its kind and value, and
\* creates no junction that no branch references.
C4_BranchEdgeMap ==
  GraphCurrent =>
    /\ Len(window.graph.edges) = 1 + Len(window.resistor_data)
    /\ EdgeFor(window.graph, window.voltage_source_data.node1,
               window.voltage_source_data.node2, "Voltage Source",
               window.voltage_source_data.value)
    /\ \A k \in 1..Len(window.resistor_data) :
         EdgeFor(window.graph, window.resistor_data[k].node1,
                 window.resistor_data[k].node2, "Resistor",
                 window.resistor_data[k].resistance)
    /\ \A k \in 1..Len(window.graph.nodes) : window.graph.nodes[k] \in BranchNodes

\* The numerator of the solved voltage of a node (the ground node is 0 V).
VoltageNum(n) ==
  IF n \in DOMAIN window.solutions THEN window.solutions[n] ELSE 0

\* The solve that is shown read the current graph.
SolvedCurrent ==
  /\ GraphCurrent
  /\ window.output.shown = "solved"
  /\ window.output.graph = window.graph
  /\ window.output.ground = window.ground_node

\* C10: in node mode the solved voltages satisfy V[n] - V[m] = +E or -E for
\* the source of EMF E between the junctions n and m, for every solved graph
\* that holds the edge of the source.
C10_SourceConstraint ==
  (SolvedCurrent /\ \E k \in 1..Len(window.graph.edges) :
                      window.graph.edges[k].type = "Voltage Source")
    => LET difference == VoltageNum(window.voltage_source_data.node1)
                           - VoltageNum(window.voltage_source_data.node2)
           E == window.voltage_source_data.value * window.output.det
       IN  difference = E \/ difference = -E

\* A solve generated equations and handed them to sp.solve.
Equated == window.output.shown \in {"solved", "no_solution"}

\* Scale / R summed over the edges of the graph with their place in ks.
RECURSIVE ConductanceSum(_, _)
ConductanceSum(G, ks) ==
  IF ks = {} THEN 0
  ELSE LET k == CHOOSE k \in ks : TRUE
       IN  (Scale(G) \div G.edges[k].value) + ConductanceSum(G, ks \ {k})

\* The resistor edges of G that touch every node of ns.
ResistorEdges(G, ns) ==
  {k \in 1..Len(G.edges) :
     G.edges[k].type = "Resistor" /\ ns \subseteq {G.edges[k].u, G.edges[k].v}}

\* C11: in delta's node equations every resistor R between the non-ground
\* junction n and a neighbour adds 1/R to the coefficient of V[n] in the
\* equation of n and -1/R to the coefficient of V[neighbour]; a ground
\* neighbour has no coefficient.  (Coefficients are kept times Scale.)
C11_ResistorCoefficients ==
  Equated =>
    LET G == window.output.graph
        U == window.output.unknowns
    IN  /\ window.output.ground \notin {U[k] : k \in 1..Len(U)}
        /\ \A i, j \in 1..Len(U) :
             window.output.Y[i][j] =
               IF i = j THEN ConductanceSum(G, ResistorEdges(G, {U[i]}))
               ELSE -ConductanceSum(G, ResistorEdges(G, {U[i], U[j]}))

\* A 2-ohm resistor between two unknown junctions, and a resistor to ground.
C11_Witness ==
  /\ window.output.shown = "solved"
  /\ LET G == window.output.graph
         U == {window.output.unknowns[k] : k \in 1..Len(window.output.unknowns)}
     IN  /\ \E k \in ResistorEdges(G, {}) :
              G.edges[k].value = 2 /\ {G.edges[k].u, G.edges[k].v} \subseteq U
         /\ \E k \in ResistorEdges(G, {window.output.ground}) :
              {G.edges[k].u, G.edges[k].v} \cap U # {}

\* C12: delta's node equations hold exactly one equation for every junction
\* of the circuit other than the ground junction and none for the ground
\* junction, so there are as many equations as unknown node voltages, on
\* every input and whether or not the voltage source touches the ground
\* junction.
C12_EquationPerJunction ==
  Equated =>
    LET G == window.output.graph
        U == window.output.unknowns
        junctions == {G.nodes[k] : k \in 1..Len(G.nodes)}
    IN  /\ Len(window.output.Y) = Len(U)
        /\ Len(window.output.rhs) = Len(U)
        /\ \A i \in 1..Len(U) : Len(window.output.Y[i]) = Len(U)
        /\ \A i, j \in 1..Len(U) : U[i] = U[j] => i = j
        /\ {U[k] : k \in 1..Len(U)} = junctions \ {window.output.ground}
        /\ window.output.ground \in junctions
        /\ Len(U) = Cardinality(junctions) - 1

\* The place of a junction in the order of identifiers A, B, C, ...
IdentifierOrder(n) == CHOOSE k \in 1..Len(NodeNames) : NodeNames[k] = n

\* The branches of the graph that end on junction n.
IncidentBranches(n) ==
  {k \in 1..Len(window.graph.edges) :
     n \in {window.graph.edges[k].u, window.graph.edges[k].v}}

\* The junctions of the graph with the highest number of incident branches.
MaxDegreeJunctions ==
  LET junctions == {window.graph.nodes[k] : k \in 1..Len(window.graph.nodes)}
  IN  {n \in junctions :
         \A m \in junctions :
           Cardinality(IncidentBranches(m)) <= Cardinality(IncidentBranches(n))}

BranchComps(G) ==
  [k \in 1..Len(G.edges) |->
     [type |-> IF G.edges[k].type = "Resistor" THEN "R" ELSE "V",
      value |-> G.edges[k].value, lines |-> {}]]

\* The dots of the branches k.. that sit on junction n.
RECURSIVE DotsAt(_, _, _)
DotsAt(G, n, k) ==
  IF k > Len(G.edges) THEN <<>>
  ELSE (IF G.edges[k].u = n THEN <<(<<k, 1>>)>> ELSE <<>>)
       \o (IF G.edges[k].v = n THEN <<(<<k, 2>>)>> ELSE <<>>)
       \o DotsAt(G, n, k + 1)

\* Wires that join the dots of one junction in a chain.
ChainWires(dots) ==
  [k \in 1..(IF Len(dots) = 0 THEN 0 ELSE Len(dots) - 1) |-> {dots[k], dots[k + 1]}]

RECURSIVE JunctionWires(_, _)
JunctionWires(G, j) ==
  IF j > Len(G.nodes) THEN <<>>
  ELSE ChainWires(DotsAt(G, G.nodes[j], 1)) \o JunctionWires(G, j + 1)

\* gamma's mesh analysis of the circuit of delta's graph.
MeshAnalysisOf(G) == Analysis(BranchComps(G), JunctionWires(G, 1))

\* The current from dot1 to dot2 of branch c, times the determinant of the
\* mesh system: the mesh currents of the meshes through the branch, signed
\* by their direction.
RECURSIVE MeshBranchNum(_, _, _, _)
MeshBranchNum(A, cs, c, i) ==
  IF i > Len(A.meshes) THEN 0
  ELSE LET a == NodeOf(cs, <<c, 1>>)
           b == NodeOf(cs, <<c, 2>>)
       IN  (IF Traverses(A.meshes[i], a, b) THEN A.currents[i]
            ELSE IF Traverses(A.meshes[i], b, a) THEN -A.currents[i]
            ELSE 0)
           + MeshBranchNum(A, cs, c, i + 1)

\* C14: the current of every resistor branch is the same in the node analysis
\* of delta, (V[u] - V[v]) / R, and in the mesh analysis of gamma of the same
\* circuit (both sides cross-multiplied by the two determinants and R).
C14_MeshNodeAgree ==
  LET G == window.graph
      A == MeshAnalysisOf(G)
  IN  (SolvedCurrent /\ A.outcome = "solved") =>
        \A k \in 1..Len(G.edges) :
          G.edges[k].type = "Resistor" =>
            (VoltageNum(G.edges[k].u) - VoltageNum(G.edges[k].v)) * A.det
              = MeshBranchNum(A, BranchComps(G), k, 1)
                  * G.edges[k].value * window.output.det

\* The worked example was entered in V1: R1 = 2, R2 = 1 (the shared Rs),
\* R3 = 3 (the example's R2), one 10 V source, mesh 1 = {R1, Rs},
\* mesh 2 = {Rs, R2}, Rs shared by the meshes 1 and 2.
WorkedExample ==
  /\ pc = "done"
  /\ resistor_values = <<2, 1, 3>>
  /\ voltage_source = 10
  /\ mesh_definitions = <<(<<1, 2>>), (<<2, 3>>)>>
  /\ shared_resistors = <<(<<2, 1, 2>>)>>

\* C15: for the worked example the assembled matrix is [[3, -1], [-1, 4]],
\* the source vector is [10, 0] (the source lies in mesh 1 only) and the
\* currents are I1 = 40/11 and I2 = 10/11.
C15_WorkedExample ==
  WorkedExample =>
    /\ calculated.R_matrix = <<(<<3, -1>>), (<<-1, 4>>)>>
    /\ calculated.V_vector = <<10, 0>>
    /\ calculated.outcome = "solved"
    /\ calculated.det = 11
    /\ calculated.mesh_currents = <<40, 10>>

C17_NonzeroEMF ==
  \A c \in 1..Len(comps) : comps[c].type = "V" => comps[c].value # 0

WiresJoinComponents ==
  \A k \in 1..Len(wires) :
    Cardinality(wires[k]) = 2 /\ Cardinality(LineComps(wires[k])) = 2

\* C19: a run of V1 on a circuit without branches (zero resistors or zero
\* meshes) ends in a failure and reports no solved values.
C19_EmptyCircuitFails ==
  (pc = "done" /\ (num_resistors = 0 \/ num_meshes = 0)) =>
    calculated.outcome # "solved"

\* The junctions of the scene's graph with exactly one incident branch.
DanglingJunctions ==
  LET G == build_graph(comps, wires)
  IN  {n \in Nodes(G) :
         Cardinality({k \in 1..Len(G.edges) : n \in {G.edges[k].u, G.edges[k].v}}) = 1}

\* C20: an analysis of a scene that has a junction with a single incident
\* branch ends in the not-connected or the no-closed-loops failure and
\* reports no mesh currents, also when the dangling branch hangs off a closed
\* loop.
C20_DanglingBranchFails ==
  (Analysed /\ DanglingJunctions # {}) =>
    /\ result.outcome \in {"no_connections", "not_connected", "no_loops"}
    /\ result.currents = <<>>

CalculateKeepsInputs ==
  [][calculated' # calculated
       => UNCHANGED <<num_meshes, resistor_values, mesh_definitions,
                      shared_resistors, voltage_source>>]_vars

\* delta: solve_analysis leaves the graph, the nodes and the ground node.
SolveKeepsGraph ==
  [][(window'.output # window.output /\ window'.output.shown # "none")
       => /\ window'.graph = window.graph
          /\ window'.nodes = window.nodes
          /\ window'.ground_node = window.ground_node
          /\ window'.components = window.components]_vars

SolveTwice ==
  [][(window.output.shown # "none" /\ window'.graph = window.output.graph
        /\ window'.ground_node = window.output.ground
        /\ window'.nodes = window.nodes
        /\ window'.output.shown # "none")
       => window'.output = window.output]_vars

\* The window as enter_data leaves it when the circuit of graph G is entered
\* into a window that has just been constructed.
FreshEntry(G) ==
  [nodes |-> G.nodes, graph |-> G, ground_node |-> choose_ground_node(G)]

\* C23: what a solve of delta assembles and reports depends on the circuit it
\* read alone: the unknowns, the failure and the equations are those of a
\* solve of the same circuit entered into a new window, whatever entries and
\* solves came before.
C23_HistoryIndependent ==
  window.output.shown # "none" =>
    LET fresh == FreshEntry(window.output.graph)
    IN  /\ window.output.ground = fresh.ground_node
        /\ window.output.unknowns = Unknowns(fresh)
        /\ (window.output.shown = "exception") = EquationsRaise(fresh)
        /\ Equated => window.output.Y = generate_node_equations(fresh).Y

\* C24: a solve of gamma has no suspension point: while a call of
\* analyze_circuit has started and not yet reported, the only step taken is
\* that call reporting its result; no editor event is handled, the scene
\* stays as it is, and analyze_circuit is not entered again.
C24_NoSuspensionPoint ==
  [][suspended > 0
       => (suspended' = suspended - 1 /\ comps' = comps /\ wires' = wires)]_vars

\* The step k of the closed walk mesh: from mesh[k] to the junction after it.
StepOf(mesh, k) == <<mesh[k], mesh[(k % Len(mesh)) + 1]>>

\* The steps of mesh over a wire, the edges that belong to no component.
WireSteps(mesh) ==
  {k \in 1..Len(mesh) :
     EdgeElement(result.G, StepOf(mesh, k)[1], StepOf(mesh, k)[2]) = 0}

\* What the step k of mesh owes to the resistances (type "R") or to the EMFs
\* (type "V"): the value of the component whose own two junctions the step
\* joins, and nothing on a wire.
StepTerm(mesh, k, type) ==
  LET a == StepOf(mesh, k)[1]
      b == StepOf(mesh, k)[2]
      c == EdgeElement(result.G, a, b)
  IN  IF c = 0 THEN 0
      ELSE IF comps[c].type # type \/ {a, b} # {JunctionA(c), JunctionB(c)} THEN 0
      ELSE IF type = "R" THEN comps[c].value
      ELSE IF a = JunctionA(c) THEN -comps[c].value
      ELSE comps[c].value

\* The terms of the steps of mesh that are also steps of every mesh of others.
RECURSIVE StepSum(_, _, _, _)
StepSum(mesh, others, type, k) ==
  IF k = 0 THEN 0
  ELSE StepSum(mesh, others, type, k - 1)
       + (IF \A o \in others :
               \/ Traverses(o, StepOf(mesh, k)[1], StepOf(mesh, k)[2])
               \/ Traverses(o, StepOf(mesh, k)[2], StepOf(mesh, k)[1])
            THEN StepTerm(mesh, k, type) ELSE 0)

\* C25: in gamma's assembly a wire a mesh traverses changes neither A nor b,
\* and only the edge between the two terminals of a component adds the
\* resistance or the EMF of that component: every entry is the sum of the
\* terms of the component steps of the mesh.
C25_WiresAddNothing ==
  Assembled =>
    \A i \in 1..Len(result.meshes) :
      LET mesh == result.meshes[i]
      IN  /\ result.R[i][i] = StepSum(mesh, {}, "R", Len(mesh))
          /\ result.V[i] = StepSum(mesh, {}, "V", Len(mesh))
          /\ \A j \in 1..Len(result.meshes) \ {i} :
               result.R[i][j] = -StepSum(mesh, {result.meshes[j]}, "R", Len(mesh))

\* A mesh that runs over two wires or more, one of them shared with a second
\* mesh, in an assembled system with a resistor and a source.
C25_Witness ==
  /\ Assembled
  /\ \E i, j \in 1..Len(result.meshes) :
       /\ i # j
       /\ Cardinality(WireSteps(result.meshes[i])) >= 2
       /\ \E k \in WireSteps(result.meshes[i]) :
            \/ Traverses(result.meshes[j], StepOf(result.meshes[i], k)[1],
                         StepOf(result.meshes[i], k)[2])
            \/ Traverses(result.meshes[j], StepOf(result.meshes[i], k)[2],
                         StepOf(result.meshes[i], k)[1])
  /\ \E c, d \in 1..Len(comps) : comps[c].type = "R" /\ comps[d].type = "V"

SymmetricMatrixGamma ==
  Assembled =>
    \A i, j \in 1..Len(result.R) : result.R[i][j] = result.R[j][i]

\* The junctions generate_node_equations would write equations for now.
EquationNodes == {window.nodes[k] : k \in 1..Len(window.nodes)}

\* The junctions of the stored graph.
GraphNodes == {window.graph.nodes[k] : k \in 1..Len(window.graph.nodes)}

\* C27: once delta has built a circuit, after any further enter_data
\* attempts, rejected or cancelled ones included, the node set the node
\* equations are generated for is the node set of the stored graph and the
\* ground node is a node of that graph.
C27_NodesMatchGraph ==
  (window.solve_enabled /\ dialog = "idle") =>
    /\ EquationNodes = GraphNodes
    /\ window.ground_node \in GraphNodes

\* C28: after any connects and deletes in gamma's editor no two connection
\* lines of the scene join the same pair of dots, and every connection line
\* joins dots of two different components that are in the scene and that
\* both hold the line in their line sets.
C28_ConnectionLines ==
  /\ \A k, l \in 1..Len(wires) : LineEq(wires[k], wires[l]) => k = l
  /\ \A k \in 1..Len(wires) :
       /\ Cardinality(wires[k]) = 2
       /\ wires[k] \subseteq SceneDots
       /\ Cardinality(LineComps(wires[k])) = 2
       /\ \A c \in LineComps(wires[k]) : wires[k] \in comps[c].lines

\* Two components joined by two lines or more, after a component was added
\* third and deleted: its dots are free again.
C28_Witness ==
  /\ Len(comps) = 2
  /\ Len(wires) >= 2
  /\ Cardinality(comps[1].lines) >= 2
  /\ result.outcome = "none"

\* The line sets hold lines of the scene only.
LineSetsInScene ==
  \A c \in 1..Len(comps) :
    \A l \in comps[c].lines : \E k \in 1..Len(wires) : wires[k] = l /\ c \in LineComps(l)

\* C29: in V1 the diagonal entry R[i][i] is the sum of the resistances of
\* the distinct resistors of mesh i's definition, also when the definition
\* lists an ID more than once; the shared-resistor entries leave it alone.
C29_DiagonalDistinct ==
  (calculated.outcome # "none") =>
    \A i \in 1..num_meshes :
      calculated.R_matrix[i][i] = SetSum(MeshResistors(i))

\* The shared-resistor entries never reach the diagonal: it is the sum over
\* the IDs as listed.
DiagonalAsListed ==
  (calculated.outcome # "none") =>
    \A i \in 1..num_meshes :
      calculated.R_matrix[i][i] =
        SumResistors(resistor_values, mesh_definitions[i], 1)

(***************************************************************************)
(* alpha: properties of the drag.                                          *)
(***************************************************************************)
\* A step that drags a component: its place before and the offset.
DragStep ==
  /\ sim.dragging # 0
  /\ sim'.dragging = sim.dragging
  /\ Len(sim'.components) = Len(sim.components)
  /\ Len(sim'.wires) = Len(sim.wires)
  /\ sim'.components # sim.components

\* C30: after a drag in alpha every wire that ended on a terminal of the
\* dragged component ends on that terminal's new position, and a wire
\* attached to other components only has not moved.
C30_WiresFollowDrag ==
  [][DragStep =>
       LET before == sim.components[sim.dragging]
           after == sim'.components[sim.dragging]
           terminals == {before.nodes[n] : n \in 1..2}
           New(pos) == <<pos[1] + after.x - before.x, pos[2] + after.y - before.y>>
       IN  \A k \in 1..Len(sim.wires) :
             /\ sim.wires[k].start \in terminals
                  => sim'.wires[k].start = New(sim.wires[k].start)
             /\ sim.wires[k].end \in terminals
                  => sim'.wires[k].end = New(sim.wires[k].end)
             /\ (sim.wires[k].start \notin terminals
                   /\ sim.wires[k].end \notin terminals)
                  => sim'.wires[k] = sim.wires[k]]_vars

====
